---- MODULE Spec2Model ----
(***************************************************************************)
(* Model of DataAccessExample_V1.ipynb: the notebook probes the host's     *)
(* physical core count, reads a list of header locations from a text file, *)
(* runs process_file over every location on a joblib thread pool, sorts    *)
(* the gathered (streamflow, time) pairs by their first time value and     *)
(* projects them into the lists Streamflow and Timestamp.                  *)
(*                                                                         *)
(* Four specifications share the variables:                                *)
(*   Spec          the notebook from the core probe to the projection,     *)
(*                 with the worker threads interleaved step by step;       *)
(*   FairSpec      Spec with the fairness a thread pool gives its threads; *)
(*   SpecAssemble  lines 211-213 applied to arbitrary gathered lists;      *)
(*   SpecRead      the URL-list reader, lines 178-188.                     *)
(***************************************************************************)
EXTENDS Integers, Sequences, FiniteSets, TLC

VARIABLES num_cores, n_jobs, mainpc, raised, files, store, feature_ids,
          nextIdx, pc, err, json_obj, ds, streamflow_value, ret, calls,
          result_values, Streamflow, Timestamp, content, pos, bound, locals

vars == <<num_cores, n_jobs, mainpc, raised, files, store, feature_ids,
          nextIdx, pc, err, json_obj, ds, streamflow_value, ret, calls,
          result_values, Streamflow, Timestamp, content, pos, bound, locals>>

(***************************************************************************)
(* Bounds.                                                                 *)
(***************************************************************************)
NumLocs == 2
NumFeatures == 2
MaxTime == 3
MaxSteps == 2
MaxResults == 3
MaxFileLen == 4

\* The probe may report more cores than there are locations.
MaxCores == NumLocs + 1

(***************************************************************************)
(* Python values.                                                          *)
(***************************************************************************)
\* psutil.cpu_count(logical=False) returns None when it cannot tell.
None == 0
\* The sets bound (the notebook's globals) and locals (one per call frame)
\* say which names are assigned.  A name that is not assigned shows a
\* placeholder of its type, which nothing reads.
NoList == <<>>
NoJson == [kind |-> "unbound", loc |-> 0, coords |-> {}, time |-> <<>>]
NoDataset == [loc |-> 0, coords |-> {}, time |-> <<>>]

Locs == 1 .. NumLocs
Times == 1 .. MaxTime

\* feature_ids = [8153461, 8153027, 18210860], abstracted to 10, 20, ...
FeatureList == [k \in 1 .. NumFeatures |-> 10 * k]
Features == {FeatureList[k] : k \in 1 .. NumFeatures}

\* Time coordinates of one header: strictly increasing, 1..MaxSteps values.
IsIncreasing(s) == \A i \in 1 .. Len(s) - 1 : s[i] < s[i + 1]
TimeSeqs ==
  {s \in UNION {[1 .. n -> Times] : n \in 1 .. MaxSteps} : IsIncreasing(s)}

\* Time coordinates of the headers behind files: one header stands for one
\* timestep, so the headers of N locations draw on N time values.
HeaderTimeSeqs ==
  {s \in TimeSeqs : \A i \in 1 .. Len(s) : s[i] <= NumLocs}

\* The streamflow a remote file holds for a feature: distinct per file.
StoreFlow(loc, fid) == 100 * loc + fid

\* What a location resolves to.  kind "unreachable": fsspec.open or
\* ujson.load raises; "unsupported": xr.open_dataset raises; "ok": a
\* reference file system whose dataset has the given coordinates.
Resources(loc) ==
  {[kind |-> k, loc |-> loc, coords |-> {}, time |-> <<>>] :
      k \in {"unreachable", "unsupported"}}
  \cup {[kind |-> "ok", loc |-> loc, coords |-> Features, time |-> ts] :
      ts \in HeaderTimeSeqs}
  \cup {[kind |-> "ok", loc |-> loc,
         coords |-> Features \ {FeatureList[NumFeatures]}, time |-> <<1>>]}

(***************************************************************************)
(* The four helpers of process_file, as functions of their arguments.      *)
(* Each yields [error, value]; error "none" means it returned.             *)
(***************************************************************************)
load_remote_json(resource) ==
  IF resource.kind = "unreachable"
  THEN [error |-> "OSError", value |-> NoJson]
  ELSE [error |-> "none", value |-> resource]

load_remote_ds(json) ==
  IF json.kind = "unsupported"
  THEN [error |-> "ValueError", value |-> NoDataset]
  ELSE [error |-> "none",
        value |-> [loc |-> json.loc, coords |-> json.coords,
                   time |-> json.time]]

\* A plausible slip: missing identifiers are skipped instead of raising.
select_flow_skip(dataset, feature_id) ==
  LET present == SelectSeq(feature_id, LAMBDA f : f \in dataset.coords)
  IN [error |-> "none",
      value |-> [k \in 1 .. Len(present) |->
                   StoreFlow(dataset.loc, present[k])]]

\* ds.streamflow.sel(feature_id=feature_id).values: label-based selection
\* raises KeyError when a label is not in the index.
select_flow(dataset, feature_id) ==
  IF \E k \in 1 .. Len(feature_id) : feature_id[k] \notin dataset.coords
  THEN [error |-> "KeyError", value |-> NoList]
  ELSE [error |-> "none",
        value |-> [k \in 1 .. Len(feature_id) |->
                     StoreFlow(dataset.loc, feature_id[k])]]

select_time(dataset) == dataset.time

\* process_file(file_url, feature_id) run alone, from call to return.
process_file(resource, feature_id) ==
  LET j == load_remote_json(resource)
      d == load_remote_ds(j.value)
      f == select_flow(d.value, feature_id)
  IN IF j.error # "none" THEN [error |-> j.error, value |-> NoList]
     ELSE IF d.error # "none" THEN [error |-> d.error, value |-> NoList]
     ELSE IF f.error # "none" THEN [error |-> f.error, value |-> NoList]
     ELSE [error |-> "none", value |-> <<f.value, select_time(d.value)>>]

(***************************************************************************)
(* sorted(result_values, key=lambda x: x[1][0]): a stable sort.            *)
(***************************************************************************)
SortKey(x) == x[2][1]

RECURSIVE InsertByKey(_, _)
InsertByKey(s, x) ==
  IF s = <<>> THEN <<x>>
  ELSE IF SortKey(Head(s)) <= SortKey(x)
       THEN <<Head(s)>> \o InsertByKey(Tail(s), x)
       ELSE <<x>> \o s

\* A plausible slip: the gathered list is used as it came.
sorted_missing(s) == s

RECURSIVE sorted(_)
sorted(s) ==
  IF s = <<>> THEN <<>>
  ELSE InsertByKey(sorted(SubSeq(s, 1, Len(s) - 1)), s[Len(s)])

\* A plausible slip: the times are taken from the wrong end of the list.
TimestampOfReversed(rv) == [i \in 1 .. Len(rv) |-> rv[Len(rv) + 1 - i][2]]

\* Streamflow = [item[0] for item in result_values]
StreamflowOf(rv) == [i \in 1 .. Len(rv) |-> rv[i][1]]
\* Timestamp = [item[1] for item in result_values]
TimestampOf(rv) == [i \in 1 .. Len(rv) |-> rv[i][2]]

(***************************************************************************)
(* The thread pool.                                                        *)
(***************************************************************************)
Tasks == 1 .. Len(files)

\* A plausible slip: the locals of process_file live in one shared place.
FrameShared(t) == 1

\* The call frame of the t-th call: json_obj, ds and streamflow_value are
\* locals of process_file.
Frame(t) == t

\* A plausible slip: the iterator over files skips every other location.
NextIndexSkip(i) == i + 2

\* The generator (... for file_url in files) yields the locations in order.
NextIndex(i) == i + 1

\* Threads the backend runs at once for a given n_jobs.
PoolWorkers(n) == IF n = None THEN 1 ELSE n

InCall == {"load_json", "load_ds", "select_flow", "select_time", "hung"}
Running == Cardinality({t \in Tasks : pc[t] \in InCall})

\* A plausible slip: calls that raised are dropped from the gathered list.
CanGatherDroppingFailures(p, n) ==
  /\ n > Len(p)
  /\ \A t \in 1 .. Len(p) : p[t] \in {"queued", "done", "failed"}

\* Parallel()(...) returns once the generator is exhausted and every
\* dispatched call has returned.
CanGather(p, n) ==
  /\ n > Len(p)
  /\ \A t \in 1 .. Len(p) : p[t] \in {"queued", "done"}

\* The list Parallel returns: the return values in the order of files.
GatherResults(p, r) ==
  LET done == SelectSeq([t \in 1 .. Len(p) |-> t], LAMBDA t : p[t] = "done")
  IN [i \in 1 .. Len(done) |-> r[done[i]]]

\* A plausible slip: dividing by None is let through.
MemoryPerWorkerUnchecked(n) == TRUE

\* available_memory_gb / num_cores raises TypeError when num_cores is None.
MemoryPerWorkerOk(n) == n # None

(***************************************************************************)
(* Spec: the notebook, cell by cell.                                       *)
(***************************************************************************)
Init ==
  /\ num_cores = None
  /\ n_jobs = None
  /\ mainpc = "probe"
  /\ raised = "none"
  /\ files = [i \in 1 .. NumLocs |-> i]
  /\ store \in {st \in [Locs -> UNION {Resources(l) : l \in Locs}] :
                  \A l \in Locs : st[l] \in Resources(l)}
  /\ feature_ids = FeatureList
  /\ nextIdx = 1
  /\ pc = [t \in Locs |-> "queued"]
  /\ err = [t \in Locs |-> "none"]
  /\ json_obj = [t \in Locs |-> NoJson]
  /\ ds = [t \in Locs |-> NoDataset]
  /\ streamflow_value = [t \in Locs |-> NoList]
  /\ ret = [t \in Locs |-> NoList]
  /\ calls = [t \in Locs |-> 0]
  /\ result_values = NoList
  /\ Streamflow = NoList
  /\ Timestamp = NoList
  /\ content = <<>>
  /\ pos = 0
  /\ bound = {"feature_ids", "files"}
  /\ locals = [t \in Locs |-> {}]

\* num_cores = psutil.cpu_count(logical=False)
ProbeCores ==
  /\ mainpc = "probe"
  /\ \E n \in {None} \cup (1 .. MaxCores) : num_cores' = n
  /\ mainpc' = "memory"
  /\ bound' = bound \cup {"num_cores"}
  /\ UNCHANGED <<locals, n_jobs, raised, files, store, feature_ids, nextIdx, pc, err,
                 json_obj, ds, streamflow_value, ret, calls, result_values,
                 Streamflow, Timestamp, content, pos>>

\* memory_per_worker_gb = available_memory_gb / num_cores
MemoryPerWorker ==
  /\ mainpc = "memory"
  /\ IF MemoryPerWorkerOk(num_cores)
     THEN mainpc' = "backend" /\ raised' = raised
     ELSE mainpc' = "error" /\ raised' = "TypeError"
  /\ UNCHANGED <<bound, locals, num_cores, n_jobs, files, store, feature_ids, nextIdx, pc,
                 err, json_obj, ds, streamflow_value, ret, calls,
                 result_values, Streamflow, Timestamp, content, pos>>

\* with joblib.parallel_backend("threading", n_jobs=num_cores):
ParallelBackend ==
  /\ mainpc = "backend"
  /\ n_jobs' = num_cores
  /\ mainpc' = "dispatch"
  /\ UNCHANGED <<bound, locals, num_cores, raised, files, store, feature_ids, nextIdx, pc,
                 err, json_obj, ds, streamflow_value, ret, calls,
                 result_values, Streamflow, Timestamp, content, pos>>

\* A free worker thread takes the next delayed call off the generator and
\* enters process_file.
Dispatch ==
  /\ mainpc = "dispatch"
  /\ nextIdx \in Tasks
  /\ Running < PoolWorkers(n_jobs)
  /\ pc' = [pc EXCEPT ![nextIdx] = "load_json"]
  /\ calls' = [calls EXCEPT ![nextIdx] = @ + 1]
  /\ nextIdx' = NextIndex(nextIdx)
  /\ UNCHANGED <<bound, locals, num_cores, n_jobs, mainpc, raised, files, store,
                 feature_ids, err, json_obj, ds, streamflow_value, ret,
                 result_values, Streamflow, Timestamp, content, pos>>

\* json_obj = load_remote_json(file_url)
LoadRemoteJson(t) ==
  /\ mainpc = "dispatch"
  /\ pc[t] = "load_json"
  /\ LET r == load_remote_json(store[files[t]])
     IN IF r.error = "none"
        THEN /\ json_obj' = [json_obj EXCEPT ![Frame(t)] = r.value]
             /\ pc' = [pc EXCEPT ![t] = "load_ds"]
             /\ err' = err
             /\ locals' = [locals EXCEPT ![Frame(t)] = @ \cup {"json_obj"}]
        ELSE /\ pc' = [pc EXCEPT ![t] = "failed"]
             /\ err' = [err EXCEPT ![t] = r.error]
             /\ json_obj' = json_obj
             /\ locals' = locals
  /\ UNCHANGED <<bound, num_cores, n_jobs, mainpc, raised, files, store,
                 feature_ids, nextIdx, ds, streamflow_value, ret, calls,
                 result_values, Streamflow, Timestamp, content, pos>>

\* The fetch of load_remote_json never completes.
Hang(t) ==
  /\ mainpc = "dispatch"
  /\ pc[t] = "load_json"
  /\ pc' = [pc EXCEPT ![t] = "hung"]
  /\ UNCHANGED <<bound, locals, num_cores, n_jobs, mainpc, raised, files, store,
                 feature_ids, nextIdx, err, json_obj, ds, streamflow_value,
                 ret, calls, result_values, Streamflow, Timestamp, content,
                 pos>>

\* ds = load_remote_ds(json_obj)
LoadRemoteDs(t) ==
  /\ mainpc = "dispatch"
  /\ pc[t] = "load_ds"
  /\ LET r == load_remote_ds(json_obj[Frame(t)])
     IN IF r.error = "none"
        THEN /\ ds' = [ds EXCEPT ![Frame(t)] = r.value]
             /\ pc' = [pc EXCEPT ![t] = "select_flow"]
             /\ err' = err
             /\ locals' = [locals EXCEPT ![Frame(t)] = @ \cup {"ds"}]
        ELSE /\ pc' = [pc EXCEPT ![t] = "failed"]
             /\ err' = [err EXCEPT ![t] = r.error]
             /\ ds' = ds
             /\ locals' = locals
  /\ UNCHANGED <<bound, num_cores, n_jobs, mainpc, raised, files, store,
                 feature_ids, nextIdx, json_obj, streamflow_value, ret,
                 calls, result_values, Streamflow, Timestamp, content, pos>>

\* streamflow_value = select_flow(ds, feature_id)
SelectFlow(t) ==
  /\ mainpc = "dispatch"
  /\ pc[t] = "select_flow"
  /\ LET r == select_flow(ds[Frame(t)], feature_ids)
     IN IF r.error = "none"
        THEN /\ streamflow_value' =
                  [streamflow_value EXCEPT ![Frame(t)] = r.value]
             /\ pc' = [pc EXCEPT ![t] = "select_time"]
             /\ err' = err
             /\ locals' = [locals EXCEPT ![Frame(t)] = @ \cup {"streamflow_value"}]
        ELSE /\ pc' = [pc EXCEPT ![t] = "failed"]
             /\ err' = [err EXCEPT ![t] = r.error]
             /\ streamflow_value' = streamflow_value
             /\ locals' = locals
  /\ UNCHANGED <<bound, num_cores, n_jobs, mainpc, raised, files, store,
                 feature_ids, nextIdx, json_obj, ds, ret, calls,
                 result_values, Streamflow, Timestamp, content, pos>>

\* time_value = select_time(ds); return streamflow_value, time_value
SelectTime(t) ==
  /\ mainpc = "dispatch"
  /\ pc[t] = "select_time"
  /\ ret' = [ret EXCEPT ![t] = <<streamflow_value[Frame(t)],
                                 select_time(ds[Frame(t)])>>]
  /\ pc' = [pc EXCEPT ![t] = "done"]
  /\ locals' = [locals EXCEPT ![Frame(t)] = @ \cup {"time_value"}]
  /\ UNCHANGED <<bound, num_cores, n_jobs, mainpc, raised, files, store,
                 feature_ids, nextIdx, err, json_obj, ds, streamflow_value,
                 calls, result_values, Streamflow, Timestamp, content, pos>>

\* result_values = joblib.Parallel()(...): every call has returned.
Gather ==
  /\ mainpc = "dispatch"
  /\ CanGather(pc, nextIdx)
  /\ result_values' = GatherResults(pc, ret)
  /\ mainpc' = "sort"
  /\ bound' = bound \cup {"result_values"}
  /\ UNCHANGED <<locals, num_cores, n_jobs, raised, files, store, feature_ids,
                 nextIdx, pc, err, json_obj, ds, streamflow_value, ret,
                 calls, Streamflow, Timestamp, content, pos>>

\* A call raised: Parallel re-raises its exception in the caller, the with
\* block is left and the rest of the cell does not run.
RaiseError ==
  /\ mainpc = "dispatch"
  /\ \E t \in Tasks : pc[t] = "failed" /\ raised' = err[t]
  /\ mainpc' = "error"
  /\ UNCHANGED <<bound, locals, num_cores, n_jobs, files, store, feature_ids, nextIdx, pc,
                 err, json_obj, ds, streamflow_value, ret, calls,
                 result_values, Streamflow, Timestamp, content, pos>>

\* result_values = sorted(result_values, key=lambda x: x[1][0])
SortResults ==
  /\ mainpc = "sort"
  /\ result_values' = sorted(result_values)
  /\ mainpc' = "project"
  /\ UNCHANGED <<bound, locals, num_cores, n_jobs, raised, files, store, feature_ids,
                 nextIdx, pc, err, json_obj, ds, streamflow_value, ret,
                 calls, Streamflow, Timestamp, content, pos>>

\* Streamflow = [...]; Timestamp = [...]
Project ==
  /\ mainpc = "project"
  /\ Streamflow' = StreamflowOf(result_values)
  /\ Timestamp' = TimestampOf(result_values)
  /\ mainpc' = "done"
  /\ bound' = bound \cup {"Streamflow", "Timestamp"}
  /\ UNCHANGED <<locals, num_cores, n_jobs, raised, files, store, feature_ids,
                 nextIdx, pc, err, json_obj, ds, streamflow_value, ret,
                 calls, result_values, content, pos>>

Worker(t) ==
  \/ LoadRemoteJson(t)
  \/ LoadRemoteDs(t)
  \/ SelectFlow(t)
  \/ SelectTime(t)

Next ==
  \/ ProbeCores
  \/ MemoryPerWorker
  \/ ParallelBackend
  \/ Dispatch
  \/ \E t \in Tasks : LoadRemoteJson(t)
  \/ \E t \in Tasks : Hang(t)
  \/ \E t \in Tasks : LoadRemoteDs(t)
  \/ \E t \in Tasks : SelectFlow(t)
  \/ \E t \in Tasks : SelectTime(t)
  \/ Gather
  \/ RaiseError
  \/ SortResults
  \/ Project

Spec == Init /\ [][Next]_vars

\* A pool thread that can take a step takes it; the caller returns from
\* Parallel when it can.  A fetch may still hang: Hang is not a fair step.
FairSpec ==
  /\ Spec
  /\ WF_vars(MemoryPerWorker \/ ParallelBackend \/ ProbeCores)
  /\ WF_vars(Dispatch)
  /\ \A t \in Locs : WF_vars(Worker(t))
  /\ WF_vars(Gather \/ RaiseError)
  /\ WF_vars(SortResults \/ Project)

(***************************************************************************)
(* SpecAssemble: the calls have returned arbitrary (streamflow, time)      *)
(* pairs; Parallel hands them over and lines 211-213 run.                  *)
(***************************************************************************)
ValueRows ==
  {[k \in 1 .. NumFeatures |-> StoreFlow(l, FeatureList[k])] : l \in 1 .. 2}

AnyResults == {<<v, ts>> : v \in ValueRows, ts \in TimeSeqs}

InitAssemble ==
  /\ \E n \in 0 .. MaxResults :
       /\ ret \in [1 .. n -> AnyResults]
       /\ files = [i \in 1 .. n |-> i]
       /\ pc = [t \in 1 .. n |-> "done"]
       /\ err = [t \in 1 .. n |-> "none"]
       /\ calls = [t \in 1 .. n |-> 1]
       /\ nextIdx = n + 1
  /\ num_cores = 1
  /\ n_jobs = 1
  /\ mainpc = "dispatch"
  /\ raised = "none"
  /\ store = <<>>
  /\ feature_ids = FeatureList
  /\ json_obj = <<>>
  /\ ds = <<>>
  /\ streamflow_value = <<>>
  /\ result_values = NoList
  /\ Streamflow = NoList
  /\ Timestamp = NoList
  /\ content = <<>>
  /\ pos = 0
  /\ bound = {"feature_ids", "files", "num_cores"}
  /\ locals = <<>>

NextAssemble ==
  \/ Gather
  \/ SortResults
  \/ Project

SpecAssemble == InitAssemble /\ [][NextAssemble]_vars

(***************************************************************************)
(* SpecRead: the URL-list reader.  A file is a sequence of characters;     *)
(* "nl" is the newline, "sp" a blank.                                      *)
(***************************************************************************)
Chars == {"a", "b", "sp", "nl"}
Whitespace == {"sp", "nl"}

FileContents == UNION {[1 .. n -> Chars] : n \in 0 .. MaxFileLen}

\* for line in file: the next line runs up to and including the next
\* newline, or to the end of the file.
RECURSIVE LineEnd(_, _)
LineEnd(c, i) ==
  IF i >= Len(c) \/ c[i] = "nl" THEN i ELSE LineEnd(c, i + 1)

NextLine(c, p) == SubSeq(c, p + 1, LineEnd(c, p + 1))

RECURSIVE lstrip(_)
lstrip(s) ==
  IF s # <<>> /\ Head(s) \in Whitespace THEN lstrip(Tail(s)) ELSE s

RECURSIVE rstrip(_)
rstrip(s) ==
  IF s # <<>> /\ s[Len(s)] \in Whitespace
  THEN rstrip(SubSeq(s, 1, Len(s) - 1))
  ELSE s

\* A plausible slip: only the line end is removed.
strip_right_only(s) == rstrip(s)

\* line.strip()
strip(s) == rstrip(lstrip(s))

InitRead ==
  /\ content \in FileContents
  /\ pos = 0
  /\ files = <<>>
  /\ mainpc = "read"
  /\ num_cores = None
  /\ n_jobs = None
  /\ raised = "none"
  /\ store = <<>>
  /\ feature_ids = FeatureList
  /\ nextIdx = 1
  /\ pc = <<>>
  /\ err = <<>>
  /\ json_obj = <<>>
  /\ ds = <<>>
  /\ streamflow_value = <<>>
  /\ ret = <<>>
  /\ calls = <<>>
  /\ result_values = NoList
  /\ Streamflow = NoList
  /\ Timestamp = NoList
  /\ bound = {"feature_ids", "files"}
  /\ locals = <<>>

\* One turn of the loop: url = line.strip(); files.append(url)
ReadLine ==
  /\ mainpc = "read"
  /\ pos < Len(content)
  /\ LET line == NextLine(content, pos)
     IN /\ files' = Append(files, strip(line))
        /\ pos' = pos + Len(line)
  /\ UNCHANGED <<bound, locals, num_cores, n_jobs, mainpc, raised, store, feature_ids,
                 nextIdx, pc, err, json_obj, ds, streamflow_value, ret,
                 calls, result_values, Streamflow, Timestamp, content>>

\* The file is exhausted: the loop and the with block end.
ReadEnd ==
  /\ mainpc = "read"
  /\ pos = Len(content)
  /\ mainpc' = "read_done"
  /\ UNCHANGED <<bound, locals, num_cores, n_jobs, raised, files, store, feature_ids,
                 nextIdx, pc, err, json_obj, ds, streamflow_value, ret,
                 calls, result_values, Streamflow, Timestamp, content, pos>>

NextRead ==
  \/ ReadLine
  \/ ReadEnd

SpecRead == InitRead /\ [][NextRead]_vars

(***************************************************************************)
(* Properties.                                                             *)
(***************************************************************************)
RECURSIVE Flatten(_)
Flatten(ss) == IF ss = <<>> THEN <<>> ELSE Head(ss) \o Flatten(Tail(ss))

NonDecreasing(s) == \A i, j \in 1 .. Len(s) : i < j => s[i] <= s[j]

Reverse(s) == [i \in 1 .. Len(s) |-> s[Len(s) + 1 - i]]

\* The list as Parallel handed it over, before the sort.
Gathered == GatherResults(pc, ret)

FirstTimes(rv) == [i \in 1 .. Len(rv) |-> rv[i][2][1]]

Assembled ==
  mainpc = "done" /\ {"Streamflow", "Timestamp"} \subseteq bound

\* What lines 211-213 make of a list.
AssembleOf(rv) == <<StreamflowOf(sorted(rv)), TimestampOf(sorted(rv))>>

IndexPermutations(n) ==
  {f \in [1 .. n -> 1 .. n] : \A i, j \in 1 .. n : f[i] = f[j] => i = j}

DistinctFirstTimes(rv) ==
  \A i, j \in 1 .. Len(rv) : rv[i][2][1] = rv[j][2][1] => i = j

\* C1 as stated: for results with one or more time values each, the
\* concatenation of the assembled Timestamp entries is non-decreasing.
C1_ConcatenatedTimesNonDecreasing ==
  Assembled => NonDecreasing(Flatten(Timestamp))

\* C1: after assembly the first time values of the Timestamp entries are
\* non-decreasing, and when every result holds exactly one time value the
\* concatenated time sequence is non-decreasing.
C1_FirstTimesNonDecreasing ==
  Assembled =>
    /\ \A i, j \in 1 .. Len(Timestamp) :
         i < j => Timestamp[i][1] <= Timestamp[j][1]
    /\ (\A i \in 1 .. Len(Timestamp) : Len(Timestamp[i]) = 1)
         => NonDecreasing(Flatten(Timestamp))

C1_Witness ==
  /\ Assembled
  /\ Len(Timestamp) >= 3
  /\ \A i \in 1 .. Len(Timestamp) : Len(Timestamp[i]) = 1
  /\ ~NonDecreasing(FirstTimes(Gathered))
  /\ Timestamp[1] # Timestamp[Len(Timestamp)]

\* C2 as stated: a list already sorted by time and the same list reversed
\* assemble to the same Streamflow and Timestamp, for any list.
C2_ReverseSameOutput ==
  (Assembled /\ NonDecreasing(FirstTimes(Gathered))) =>
    AssembleOf(Reverse(Gathered)) = <<Streamflow, Timestamp>>

\* C2: when the first time values of the results are pairwise distinct,
\* every order of the gathered list (the reverse among them) assembles to
\* the Streamflow and Timestamp of the run.
C2_OrderIndependentWhenDistinct ==
  (Assembled /\ DistinctFirstTimes(Gathered)) =>
    /\ AssembleOf(Reverse(Gathered)) = <<Streamflow, Timestamp>>
    /\ \A f \in IndexPermutations(Len(Gathered)) :
         AssembleOf([i \in 1 .. Len(Gathered) |-> Gathered[f[i]]])
           = <<Streamflow, Timestamp>>

C2_Witness ==
  /\ Assembled
  /\ Len(Gathered) >= 3
  /\ DistinctFirstTimes(Gathered)
  /\ NonDecreasing(FirstTimes(Gathered))
  /\ Gathered[1][1] # Gathered[2][1]

(***************************************************************************)
(* Ground truth about the remote resources, read off the store.            *)
(***************************************************************************)
LacksFeature(r) ==
  r.kind = "ok" /\ \E k \in 1 .. Len(FeatureList) : FeatureList[k] \notin r.coords

FailingLocs == {l \in Locs : store[l].kind # "ok" \/ LacksFeature(store[l])}

ErrorOf(r) ==
  IF r.kind = "unreachable" THEN "OSError"
  ELSE IF r.kind = "unsupported" THEN "ValueError"
  ELSE "KeyError"

RowOf(l) == [k \in 1 .. Len(FeatureList) |-> StoreFlow(l, FeatureList[k])]

PastDispatch == mainpc \in {"sort", "project", "done"}

NoOutput ==
  bound \cap {"result_values", "Streamflow", "Timestamp"} = {}

\* C3: when exactly one location's call fails, the run never gets past the
\* dispatch (no list is gathered, sorted or projected), and the error the
\* caller ends with is the error of that location.
C3_OneFailureSurfaces ==
  Cardinality(FailingLocs) = 1 =>
    /\ ~PastDispatch
    /\ NoOutput
    /\ (mainpc = "error" /\ raised # "TypeError") =>
         \E l \in FailingLocs : raised = ErrorOf(store[l])

C3_Witness ==
  /\ Cardinality(FailingLocs) = 1
  /\ mainpc = "error"
  /\ raised \in {"OSError", "ValueError", "KeyError"}
  /\ \E t \in Tasks : pc[t] = "done"

\* C4: a call whose dataset lacks a requested feature id never holds or
\* returns a streamflow value: it fails with KeyError, and the run has no
\* output.
C4_MissingFeatureRaises ==
  \A t \in Tasks :
    LacksFeature(store[files[t]]) =>
      /\ pc[t] \notin {"select_time", "done"}
      /\ "streamflow_value" \notin locals[t]
      /\ pc[t] = "failed" => err[t] = "KeyError"
      /\ ~PastDispatch
      /\ NoOutput

C4_Witness ==
  /\ mainpc = "error"
  /\ raised = "KeyError"
  /\ \E t \in Tasks :
       /\ LacksFeature(store[files[t]])
       /\ pc[t] = "failed"
       /\ "ds" \in locals[t]

\* C5: after a run over single-timestep headers, the i-th Streamflow entry
\* and the i-th Timestamp entry come from the same location, every location
\* contributes exactly one entry, the k-th value of an entry is the stored
\* flow of the k-th requested feature, and the entries are in time order.
C5_SeriesPairedWithTimes ==
  (Assembled /\ \A l \in Locs : Len(store[l].time) = 1) =>
    /\ Len(Streamflow) = Len(files)
    /\ Len(Timestamp) = Len(files)
    /\ \E f \in IndexPermutations(Len(files)) :
         \A i \in 1 .. Len(files) :
           /\ Timestamp[i] = store[files[f[i]]].time
           /\ Streamflow[i] = RowOf(files[f[i]])
    /\ \A i, j \in 1 .. Len(Timestamp) :
         i < j => Timestamp[i][1] <= Timestamp[j][1]

C5_Witness ==
  /\ Assembled
  /\ store[1].time = <<2>>
  /\ store[2].time = <<1>>
  /\ Streamflow[1] = RowOf(2)
  /\ Timestamp[1] = <<1>>

\* C6: no location is processed twice, and once the list is gathered every
\* location has been processed exactly once and the list holds one result
\* per location, that location's own.
C6_OneCallPerLocation ==
  /\ \A t \in Tasks : calls[t] <= 1
  /\ PastDispatch =>
       /\ \A t \in Tasks : calls[t] = 1
       /\ Len(result_values) = Len(files)
       /\ Len(Gathered) = Len(files)
       /\ \A t \in Tasks :
            Gathered[t] = <<RowOf(files[t]), store[files[t]].time>>

C6_Witness ==
  /\ mainpc = "sort"
  /\ Len(result_values) = Len(files)
  /\ Len(files) >= 2
  /\ n_jobs = 1

AfterBackend == mainpc \in {"dispatch", "sort", "project", "done"}

\* C7 as stated: the worker count given to the pool is at least 1 and at
\* most the number of locations.
C7_WorkersClamped ==
  AfterBackend => (n_jobs >= 1 /\ n_jobs <= Len(files))

\* C7: the worker count given to the pool is the probed core count, which
\* is at least 1; no more calls run at once than that.
C7_WorkersAreProbedCores ==
  AfterBackend =>
    /\ n_jobs = num_cores
    /\ n_jobs >= 1
    /\ Running <= n_jobs

C7_Witness ==
  /\ mainpc = "dispatch"
  /\ n_jobs > Len(files)
  /\ Running = Len(files)

(***************************************************************************)
(* The lines of a file and their trimmed form, stated by position.         *)
(***************************************************************************)
LineStarts ==
  {i \in 1 .. Len(content) : i = 1 \/ content[i - 1] = "nl"}

NumLines == Cardinality(LineStarts)

\* The i-th line: from the i-th start up to the character before the next.
LineStart(i) ==
  CHOOSE p \in LineStarts : Cardinality({q \in LineStarts : q < p}) = i - 1

LineLast(i) == IF i = NumLines THEN Len(content) ELSE LineStart(i + 1) - 1

Solid(i) ==
  {p \in LineStart(i) .. LineLast(i) : content[p] \notin Whitespace}

Min(S) == CHOOSE x \in S : \A y \in S : x <= y
Max(S) == CHOOSE x \in S : \A y \in S : x >= y

Trimmed(i) ==
  IF Solid(i) = {} THEN <<>> ELSE SubSeq(content, Min(Solid(i)), Max(Solid(i)))

\* C8 as stated: blank lines are ignored, so there is one location per
\* non-blank line and no location is the empty string.
C8_BlankLinesIgnored ==
  mainpc = "read_done" =>
    /\ Len(files) = Cardinality({i \in 1 .. NumLines : Solid(i) # {}})
    /\ \A i \in 1 .. Len(files) : files[i] # <<>>

\* C8: the list holds one entry per line of the file, in file order, each
\* the line without its leading and trailing whitespace; a blank line
\* gives an empty entry.
C8_OneTrimmedEntryPerLine ==
  mainpc = "read_done" =>
    /\ Len(files) = NumLines
    /\ \A i \in 1 .. NumLines : files[i] = Trimmed(i)

C8_Witness ==
  /\ mainpc = "read_done"
  /\ Len(files) = 3
  /\ files[1] = <<"a">>
  /\ files[2] = <<>>
  /\ files[3] = <<"b">>

\* C9: whatever the interleaving, a call returns what process_file returns
\* when run alone on its location, fails as that run fails, keeps only its
\* own header and dataset, and leaves feature_ids as it was.
C9_CallsAreIsolated ==
  /\ feature_ids = FeatureList
  /\ \A t \in Tasks :
       LET alone == process_file(store[files[t]], FeatureList)
       IN /\ pc[t] = "done" => (alone.error = "none" /\ ret[t] = alone.value)
          /\ pc[t] = "failed" => err[t] = alone.error
          /\ pc[t] \in {"load_ds", "select_flow", "select_time"}
               => json_obj[t].loc = files[t]
          /\ pc[t] \in {"select_flow", "select_time"}
               => ds[t].loc = files[t]
          /\ pc[t] = "select_time"
               => streamflow_value[t] = RowOf(files[t])

C9_Witness ==
  /\ pc[1] = "select_time"
  /\ pc[2] = "select_time"
  /\ store[1].time # store[2].time

\* C10: the list is handed to the sort only when every call has returned,
\* so a hung fetch keeps the run from producing a result; and if the calls
\* keep being scheduled, the run ends with a result or an error unless a
\* fetch hangs.
C10_NoTimeout ==
  /\ [](PastDispatch => \A t \in Tasks : pc[t] = "done")
  /\ []((\E t \in Tasks : pc[t] = "hung") => (~PastDispatch /\ NoOutput))
  /\ <>(mainpc \in {"done", "error"} \/ \E t \in Tasks : pc[t] = "hung")

C10_Witness ==
  /\ mainpc = "dispatch"
  /\ \E t \in Tasks : pc[t] = "hung"
  /\ \E t \in Tasks : pc[t] = "done"
  /\ nextIdx > Len(files)

====
